---- MODULE Spec2Model ----
(***************************************************************************)
(* A model of the teletext command line pipeline (teletext/cli.py) and of  *)
(* the CELP dump (teletext/celp.py).  A command is a chain of generators:  *)
(* the model keeps the chain as a list of stages and runs one next() of    *)
(* the consumer at a time through it.  The collaborators the two files     *)
(* import (FileChunker, Packet, the pipeline stages, the statistics taps,  *)
(* Line) are modelled from the specification's description of them.        *)
(***************************************************************************)
EXTENDS Integers, Sequences, FiniteSets, TLC

VARIABLES
    pc,        \* the wrapper or loop that runs next, or how the command ended
    input,     \* the bytes of the input file
    args,      \* the options click hands to the wrappers (kwargs), and the
               \* facts about stdin and stdout the wrappers ask for
    stages,    \* the chain of generators built so far, source first
    chunks,    \* the FileChunker generator: its parameters, next index and count
    postfix,   \* the progress bar's postfix: None until set to a StatsList
    yielded,   \* per stage, the items it has yielded so far
    lastPulls, \* per stage, the next() calls it received in the last request
    local      \* the local variables of the command and of its generators

vars == <<pc, input, args, stages, chunks, postfix, yielded, lastPulls, local>>

\* Python's None, as a value apart from every integer an option can take.
None == -1

\* A flag is an integer as in Python (False == 0, True == 1) or None.
Truthy(v) == v # None /\ v # 0

\* The state before a generator has been built.
NoGen == <<>>

Min(a, b) == IF a <= b THEN a ELSE b

\* ceil(a / b) for b > 0, and 0 when a <= 0: the length of range(0, a, b).
RangeLen(a, b) == IF a <= 0 THEN 0 ELSE (a + b - 1) \div b

\* Python's s[:n] for n >= 0, on any sequence (a tuple, bytes, an array).
SliceTo(s, n) == SubSeq(s, 1, Min(n, Len(s)))

\* Python's s[a:b] for 0 <= a <= b (0-based, b exclusive).
Slice(s, a, b) == SubSeq(s, a + 1, Min(b, Len(s)))

RECURSIVE Concat(_)
Concat(ss) == IF ss = <<>> THEN <<>> ELSE Head(ss) \o Concat(Tail(ss))

SeqsUpTo(S, n) == UNION {[1..k -> S] : k \in 0..n}

(***************************************************************************)
(* Bounds of the model.                                                    *)
(***************************************************************************)
MaxFileLen == 13
MaxLineLength == 3
MaxStart == 2
MaxStop == 4
MaxStep == 3
MaxLimit == 3
MaxPackets == 3
MaxFilterPackets == 4
MaxSquashPackets == 4
MaxCelpPackets == 4
MaxLines == 3
MaxDefaultsPackets == 3

\* output: default=[('auto', '-')], one sink.
DefaultOutputs == 1

(***************************************************************************)
(* FileChunker: numbered fixed-size chunks of a byte stream.               *)
(***************************************************************************)
\* The generator FileChunker(f, size, start, stop, step, limit) returns.
FileChunker(f, size, start, stop, step, limit) ==
    [f |-> f, size |-> size, stop |-> stop, step |-> step, limit |-> limit,
     index |-> start, count |-> 0]

\* next() on the generator raises StopIteration: stop or limit reached, or the
\* stream holds no whole chunk at the index (a short final chunk is discarded).
FC_Exhausted(g) ==
    \/ g.stop # None /\ g.index >= g.stop
    \/ g.limit # None /\ g.count >= g.limit
    \/ (g.index + 1) * g.size > Len(g.f)

\* The (number, data) tuple next() yields.
FC_Yield(g) == <<g.index, SubSeq(g.f, g.index * g.size + 1, (g.index + 1) * g.size)>>

\* The generator after a yield.
FC_Advance(g) == [g EXCEPT !.index = g.index + g.step, !.count = g.count + 1]

(***************************************************************************)
(* Packet: 42 bytes of payload and a sequence number; the MRAG is decoded  *)
(* from its first two bytes.                                               *)
(***************************************************************************)
\* The Hamming 8/4 codeword of nibble n (n = 0..15) is Hamming8[n + 1].
Hamming8 == <<21, 2, 73, 94, 100, 115, 56, 47, 208, 199, 140, 155, 161, 182, 253, 234>>

hamming8_encode(n) == Hamming8[n + 1]

Bit(b, i) == (b \div (2 ^ i)) % 2

\* The nibble a byte carries in its data bits 1, 3, 5 and 7.
hamming8_decode(b) == Bit(b, 1) + 2 * Bit(b, 3) + 4 * Bit(b, 5) + 8 * Bit(b, 7)

\* The MRAG of a payload: the magazine (0 denotes magazine 8) and the row.
decode_mrag(data) ==
    LET a == hamming8_decode(data[1])
        b == hamming8_decode(data[2])
    IN  [magazine |-> IF a % 8 = 0 THEN 8 ELSE a % 8, row |-> (a \div 8) + 2 * b]

\* The header fields of a payload: the page (two nibbles) and the subpage
\* (four nibbles, masked 0x3F7F).
decode_header(data) ==
    [page |-> hamming8_decode(data[3]) + 16 * hamming8_decode(data[4]),
     subpage |-> hamming8_decode(data[5]) + 16 * (hamming8_decode(data[6]) % 8)
                 + 256 * hamming8_decode(data[7])
                 + 4096 * (hamming8_decode(data[8]) % 4)]

\* A packet: its payload and sequence number, with the fields the payload
\* decodes to.
Packet(data, number) ==
    [array |-> data, number |-> number, mrag |-> decode_mrag(data),
     header |-> decode_header(data)]

mrag(p) == p.mrag

\* The 42 bytes of a packet of the given magazine and row whose other 40
\* bytes are fill + their offset: no two offsets of a packet carry the same byte.
EncodePacket(magazine, row, fill) ==
    <<hamming8_encode((magazine % 8) + 8 * (row % 2)), hamming8_encode(row \div 2)>>
        \o [i \in 1..40 |-> (fill + i + 1) % 256]

header(p) == p.header

\* The 42 bytes of the header of a page (0x00..0xFF) and subpage of a magazine.
EncodeHeader(magazine, page, subpage, fill) ==
    <<hamming8_encode(magazine % 8), hamming8_encode(0),
      hamming8_encode(page % 16), hamming8_encode(page \div 16),
      hamming8_encode(subpage % 16), hamming8_encode((subpage \div 16) % 8),
      hamming8_encode((subpage \div 256) % 16), hamming8_encode((subpage \div 4096) % 4)>>
        \o [i \in 1..34 |-> (fill + i + 7) % 256]

(***************************************************************************)
(* pipeline.paginate: per magazine, IDLE (an empty buffer) or COLLECTING   *)
(* (the buffer holds an accepted header and the rows that followed it).    *)
(***************************************************************************)
\* The page number a header is matched by: the magazine and the page.
fullpage(p) == mrag(p).magazine * 256 + header(p).page

accepted(p, pages, subpages) == fullpage(p) \in pages /\ header(p).subpage \in subpages

HasRow(buf, row) == \E i \in 1..Len(buf) : mrag(buf[i]).row = row

\* The buffer of a magazine after one of its packets: a row 0 packet starts a
\* buffer if it is accepted and leaves none if not; a row 1..25 is appended to
\* a buffer that is being collected unless the buffer holds that row already.
paginate_buffer(buf, p, pages, subpages) ==
    IF mrag(p).row = 0
    THEN IF accepted(p, pages, subpages) THEN <<p>> ELSE <<>>
    ELSE IF buf # <<>> /\ mrag(p).row \in 1..25 /\ ~HasRow(buf, mrag(p).row)
    THEN Append(buf, p)
    ELSE buf

\* filter: "for pl in pipeline.paginate(...): yield from pl"
filter_yield_from_rows(pl) == Tail(pl)

filter_yield_from(pl) == pl

(***************************************************************************)
(* pipeline.subpage_squash: the subpages are grouped by (magazine, page,   *)
(* subpage) in a cache keyed on (magazine, page); a group is merged byte   *)
(* by byte when another subpage of its page displaces it or the stream     *)
(* ends, and is emitted if it holds at least min_duplicates samples.       *)
(***************************************************************************)
RowsOf(pl) == {pl[i].mrag.row : i \in 1..Len(pl)}

RowOf(pl, row) == pl[CHOOSE i \in 1..Len(pl) : pl[i].mrag.row = row]

\* The (magazine, page, subpage) of a packet list, read from its header.
SubpageKey(pl) == <<pl[1].mrag.magazine, pl[1].header.page, pl[1].header.subpage>>

\* The payloads of one row in the samples that hold it, oldest first.
Contributors(samples, row) ==
    Concat([s \in 1..Len(samples) |->
              IF row \in RowsOf(samples[s]) THEN <<RowOf(samples[s], row).array>>
              ELSE <<>>])

Count(vs, v) == Cardinality({i \in 1..Len(vs) : vs[i] = v})

Last(vs, v) == CHOOSE i \in 1..Len(vs) : vs[i] = v /\ \A j \in 1..Len(vs) : vs[j] = v => j <= i

\* The most frequent of the values vs, the most recent of them on a tie.
vote(vs) ==
    vs[CHOOSE i \in 1..Len(vs) :
          /\ i = Last(vs, vs[i])
          /\ \A j \in 1..Len(vs) :
                \/ Count(vs, vs[i]) > Count(vs, vs[j])
                \/ Count(vs, vs[i]) = Count(vs, vs[j]) /\ Last(vs, vs[j]) <= i]

\* The merged subpage of a group: one packet per row some sample holds, in
\* row order, each byte voted among the samples that hold the row.
squash_merge(samples) ==
    LET rows == UNION {RowsOf(samples[s]) : s \in 1..Len(samples)}
        nth(j) == CHOOSE r \in rows : Cardinality({q \in rows : q < r}) = j - 1
    IN  [packets |->
            [j \in 1..Cardinality(rows) |->
                LET cs == Contributors(samples, nth(j))
                IN  Packet([i \in 1..Len(cs[1]) |-> vote([s \in 1..Len(cs) |-> cs[s][i]])],
                           None)]]

\* The cache after the packet list pl: pl joins the group of its key, or
\* starts a group in the place of the group of its (magazine, page).
squash_cache(cache, pl) ==
    LET key == SubpageKey(pl)
        same == {g \in 1..Len(cache) : cache[g].key[1] = key[1] /\ cache[g].key[2] = key[2]}
    IN  IF same = {}
        THEN Append(cache, [key |-> key, samples |-> <<pl>>])
        ELSE LET g == CHOOSE g \in same : TRUE
             IN  IF cache[g].key = key
                 THEN [cache EXCEPT ![g].samples = Append(@, pl)]
                 ELSE [cache EXCEPT ![g] = [key |-> key, samples |-> <<pl>>]]

\* The group pl displaces from the cache (none: the empty sequence).
squash_displaced(cache, pl) ==
    LET key == SubpageKey(pl)
        same == {g \in 1..Len(cache) : cache[g].key[1] = key[1] /\ cache[g].key[2] = key[2]
                                        /\ cache[g].key # key}
    IN  IF same = {} THEN <<>> ELSE <<cache[CHOOSE g \in same : TRUE]>>

\* squash: "for sp in pipeline.subpage_squash(...): yield from sp.packets"
squash_yield_from(sp) == sp.packets

(***************************************************************************)
(* The chain of generators.  Every stage but the source is a generator     *)
(* expression "(StageMap(x) for x in upstream if StagePred(x))".           *)
(***************************************************************************)
\* chunks = (c[:42] for c in chunks), c being the chunker's (number, data)
wst_slice(c) == SliceTo(c, 42)

\* packets = (Packet(data, number) for number, data in chunks)
make_packet(c) == Packet(c[2], c[1])

\* p.mrag.magazine in mags and p.mrag.row in rows
mrag_filter_any(p) == mrag(p).magazine \in args.mags \/ mrag(p).row \in args.rows

mrag_filter(p) == mrag(p).magazine \in args.mags /\ mrag(p).row \in args.rows

(***************************************************************************)
(* Line: one line of raw samples and its sequence number.  is_teletext is  *)
(* false when no clock run-in is found, as in a line of uniform samples;   *)
(* bit recovery returns None (no packet, the empty sequence here) for such *)
(* a line, for a line whose MRAG is uncorrectable and for a packet outside *)
(* mags and rows, and a Packet with the line's number (<<p>>) otherwise.   *)
(***************************************************************************)
line_is_teletext(samples) == \E i \in 1..Len(samples) : samples[i] # samples[1]

Line(chunk, number) ==
    [samples |-> chunk, number |-> number, is_teletext |-> line_is_teletext(chunk)]

\* The bits recovered from a line: uncorrectable when the first sample is
\* odd, else the packet of the magazine and row the next two samples give.
line_recover(l, mags, rows) ==
    IF ~l.is_teletext \/ l.samples[1] % 2 = 1 THEN <<>>
    ELSE LET p == Packet(EncodePacket(l.samples[2] % 8, l.samples[3] % 32, l.number),
                         l.number)
         IN  IF p.mrag.magazine \in mags /\ p.mrag.row \in rows THEN <<p>> ELSE <<>>

\* l.slice(mags, rows)
line_slice(l, mags, rows) == line_recover(l, mags, rows)

\* l.deconvolve(mags, rows)
line_deconvolve(l, mags, rows) == line_recover(l, mags, rows)

\* lines = (Line(chunk, number, extra_roll=extra_roll) for number, chunk in chunks)
make_line(c) == Line(c[2], c[1])

teletext_filter_all(l) == TRUE

\* ... for l in lines if l.is_teletext
teletext_filter(l) == l.is_teletext

\* packets = (p for p in packets if p is not None)
not_none(p) == p # <<>>

\* A statistics tap yields the element it pulled, unchanged.
tap(x) == x

\* tqdm yields the element it pulled.
tqdm(x) == x

\* pipeline.to_file writes the packet to its file and yields it.
to_file(p) == p

Taps == {"MagHistogram", "RowHistogram", "ErrorHistogram", "Rejects"}

\* The "if" clause of a stage's generator expression (none: every item passes).
StagePred_checked(name, x) ==
    CASE name = "filter" -> mrag_filter(x)
      [] name = "Packet" -> Len(x[2]) = 42
      [] name \in {"slice", "deconvolve"} -> teletext_filter(x)
      [] name = "not_none" -> not_none(x)
      [] OTHER -> TRUE

StagePred(name, x) ==
    CASE name = "filter" -> mrag_filter(x)
      [] name \in {"slice", "deconvolve"} -> teletext_filter(x)
      [] name = "not_none" -> not_none(x)
      [] OTHER -> TRUE

\* The expression a stage's generator yields for the item x it pulled.
StageMap(name, x) ==
    CASE name = "wst" -> wst_slice(x)
      [] name = "Packet" -> make_packet(x)
      [] name = "Line" -> make_line(x)
      [] name = "slice" -> line_slice(x, args.mags, args.rows)
      [] name = "deconvolve" -> line_deconvolve(x, args.mags, args.rows)
      [] name = "not_none" -> x[1]
      [] name = "tqdm" -> tqdm(x)
      [] name \in Taps -> tap(x)
      [] name = "to_file" -> to_file(x)
      [] OTHER -> x

\* One next() on stage k of the chain: st is the generators' state, the
\* result says whether StopIteration was raised and, if not, holds the item.
RECURSIVE Pull(_, _), PullLoop(_, _), PaginateNext(_, _), YieldFromNext(_, _)
RECURSIVE SquashFlush(_, _), SquashNext(_, _)
Pull(k, st) ==
    LET st1 == [st EXCEPT !.pulls[k] = @ + 1]
    IN  IF k = 1
        THEN IF FC_Exhausted(st1.chunks)
             THEN [st |-> st1, stop |-> TRUE, item |-> <<>>]
             ELSE [st |-> [st1 EXCEPT !.chunks = FC_Advance(@),
                                      !.yielded[1] = Append(@, FC_Yield(st1.chunks))],
                   stop |-> FALSE, item |-> FC_Yield(st1.chunks)]
        ELSE IF stages[k] = "paginate" THEN PaginateNext(k, st1)
        ELSE IF stages[k] = "subpage_squash" THEN SquashNext(k, st1)
        ELSE IF stages[k] \in {"yield_from_pl", "yield_from_sp"} THEN YieldFromNext(k, st1)
        ELSE PullLoop(k, st1)

PullLoop(k, st) ==
    LET r == Pull(k - 1, st)
    IN  IF r.stop THEN r
        ELSE IF StagePred(stages[k], r.item)
        THEN LET y == StageMap(stages[k], r.item)
             IN  [st |-> [r.st EXCEPT !.yielded[k] = Append(@, y)],
                  stop |-> FALSE, item |-> y]
        ELSE PullLoop(k, r.st)

\* next() on paginate after the end of its input: the non-empty buffers are
\* flushed, one per next().
PaginateFlush(k, st) ==
    LET full == {m \in 1..8 : st.local.magbuffers[m] # <<>>}
    IN  IF full = {}
        THEN [st |-> st, stop |-> TRUE, item |-> <<>>]
        ELSE LET m == CHOOSE m \in full : \A n \in full : m <= n
                 pl == st.local.magbuffers[m]
             IN  [st |-> [st EXCEPT !.local.magbuffers[m] = <<>>,
                                    !.yielded[k] = Append(@, pl)],
                  stop |-> FALSE, item |-> pl]

\* next() on paginate: packets are pulled until a row 0 packet displaces a
\* buffer, which is yielded, or until the input ends.
PaginateNext(k, st) ==
    IF st.local.eos
    THEN PaginateFlush(k, st)
    ELSE LET r == Pull(k - 1, st)
         IN  IF r.stop
             THEN PaginateFlush(k, [r.st EXCEPT !.local.eos = TRUE])
             ELSE LET m == mrag(r.item).magazine
                      old == r.st.local.magbuffers[m]
                      st2 == [r.st EXCEPT !.local.magbuffers[m] =
                                 paginate_buffer(old, r.item, r.st.local.pages,
                                                 r.st.local.subpages)]
                  IN  IF mrag(r.item).row = 0 /\ old # <<>>
                      THEN [st |-> [st2 EXCEPT !.yielded[k] = Append(@, old)],
                            stop |-> FALSE, item |-> old]
                      ELSE PaginateNext(k, st2)

\* next() on the command's generator: the next packet of the list being
\* yielded from, or of the next list the stage above yields.
YieldFromNext(k, st) ==
    IF st.local.pending # <<>>
    THEN [st |-> [st EXCEPT !.local.pending = Tail(@),
                            !.yielded[k] = Append(@, Head(st.local.pending))],
          stop |-> FALSE, item |-> Head(st.local.pending)]
    ELSE LET r == Pull(k - 1, st)
         IN  IF r.stop THEN r
             ELSE YieldFromNext(k, [r.st EXCEPT !.local.pending =
                                       IF stages[k] = "yield_from_pl"
                                       THEN filter_yield_from(r.item)
                                       ELSE squash_yield_from(r.item)])

\* next() on subpage_squash after the end of its input: the groups left in
\* the cache are merged and yielded, one per next(), those with fewer than
\* min_duplicates samples being dropped.
SquashFlush(k, st) ==
    IF st.local.cache = <<>>
    THEN [st |-> st, stop |-> TRUE, item |-> <<>>]
    ELSE LET g == Head(st.local.cache)
             st2 == [st EXCEPT !.local.cache = Tail(@)]
         IN  IF Len(g.samples) >= st.local.min_duplicates
             THEN LET sp == squash_merge(g.samples)
                  IN  [st |-> [st2 EXCEPT !.yielded[k] = Append(@, sp)],
                       stop |-> FALSE, item |-> sp]
             ELSE SquashFlush(k, st2)

\* next() on subpage_squash: packet lists are pulled until one displaces a
\* group with at least min_duplicates samples, which is merged and yielded,
\* or until the input ends.
SquashNext(k, st) ==
    IF st.local.sq_eos
    THEN SquashFlush(k, st)
    ELSE LET r == Pull(k - 1, st)
         IN  IF r.stop
             THEN SquashFlush(k, [r.st EXCEPT !.local.sq_eos = TRUE])
             ELSE LET old == squash_displaced(r.st.local.cache, r.item)
                      st2 == [r.st EXCEPT !.local.cache = squash_cache(@, r.item)]
                  IN  IF old # <<>> /\ Len(old[1].samples) >= st.local.min_duplicates
                      THEN LET sp == squash_merge(old[1].samples)
                           IN  [st |-> [st2 EXCEPT !.yielded[k] = Append(@, sp)],
                                stop |-> FALSE, item |-> sp]
                      ELSE SquashNext(k, st2)

\* The consumer's loop ("for p in packets: pass") asks the last stage for one item.
Request ==
    /\ pc = "iter"
    /\ \E r \in {Pull(Len(stages), [chunks |-> chunks, yielded |-> yielded,
                                       pulls |-> [k \in 1..Len(stages) |-> 0],
                                       local |-> local])} :
           /\ chunks' = r.st.chunks
           /\ local' = r.st.local
           /\ yielded' = r.st.yielded
           /\ lastPulls' = r.st.pulls
           /\ pc' = IF r.stop THEN "done" ELSE "iter"
    /\ UNCHANGED <<input, args, stages, postfix>>

\* Stage names appended to the chain, each with nothing yielded yet.
Chain(names) ==
    /\ stages' = stages \o names
    /\ yielded' = yielded \o [k \in 1..Len(names) |-> <<>>]
    /\ lastPulls' = lastPulls \o [k \in 1..Len(names) |-> 0]

NoPostfix == [set |-> FALSE, list |-> <<>>]

StatsList == [set |-> TRUE, list |-> <<>>]

\* The stage of the chain with the given name (0 when it has none).
StageOf(name) ==
    IF \E k \in 1..Len(stages) : stages[k] = name
    THEN CHOOSE k \in 1..Len(stages) : stages[k] = name
    ELSE 0

\* The command's locals before it runs.
NoLocals ==
    [paginate |-> FALSE, pages |-> {}, subpages |-> {},
     magbuffers |-> [m \in 1..8 |-> <<>>], eos |-> FALSE, pending |-> <<>>,
     min_duplicates |-> 0, cache |-> <<>>, sq_eos |-> FALSE,
     o |-> <<>>, stdout |-> <<>>, dcn |-> <<>>]

Start ==
    /\ stages = <<>>
    /\ chunks = NoGen
    /\ postfix = NoPostfix
    /\ yielded = <<>>
    /\ lastPulls = <<>>
    /\ local = NoLocals

(***************************************************************************)
(* chunkreader (cli.py 80-99).                                             *)
(***************************************************************************)
chunker_nostart(size) ==
    FileChunker(input, size, 0, args.stop, args.step, args.limit)

\* chunker = lambda size: FileChunker(input, size, start, stop, step, limit)
chunker(size) ==
    FileChunker(input, size, args.start, args.stop, args.step, args.limit)

\* chunkreader.wrapper, up to its call of the wrapped function.
chunkreader ==
    /\ pc = "chunkreader"
    /\ IF args.input_isatty
       THEN /\ pc' = "usage_error"
            /\ UNCHANGED args
       ELSE /\ pc' = "command"
            /\ args' = IF "progress" \in DOMAIN args /\ args.progress = None
                          /\ args.input_fifo
                       THEN [args EXCEPT !.progress = 0]
                       ELSE args
    /\ UNCHANGED <<input, stages, chunks, postfix, yielded, lastPulls, local>>

(***************************************************************************)
(* vbiview (cli.py 327-350): the chunks of line_length bytes, as lines.    *)
(***************************************************************************)
\* The file of n bytes whose byte at offset i is i mod 256.
FileOfLen(n) == [i \in 1..n |-> (i - 1) % 256]

OptInt(lo, hi) == {None} \cup (lo..hi)

ChunkerInit ==
    /\ pc = "chunkreader"
    /\ input \in {FileOfLen(n) : n \in 0..MaxFileLen}
    /\ args \in [line_length : 1..MaxLineLength, input_isatty : BOOLEAN,
                 start : 0..MaxStart, stop : OptInt(0, MaxStop), step : 1..MaxStep,
                 limit : OptInt(0, MaxLimit)]
    /\ Start

\* chunks = chunker(config.line_length); lines = (Line(chunk, number, ...) ...)
vbiview ==
    /\ pc = "command"
    /\ chunks' = chunker(args.line_length)
    /\ Chain(<<"FileChunker", "Line">>)
    /\ pc' = "iter"
    /\ UNCHANGED <<input, args, postfix, local>>

ChunkerNext == chunkreader \/ vbiview \/ Request

SpecChunker == ChunkerInit /\ [][ChunkerNext]_vars

\* The chunks the chunker has yielded so far.
chunksOut == IF stages = <<>> THEN <<>> ELSE yielded[1]

\* The stream holds every chunk the options ask for.
LongEnough ==
    /\ args.stop # None
    /\ args.stop >= args.start
    /\ \A k \in 0..args.stop :
          (args.start + k * args.step < args.stop /\ (args.limit = None \/ k < args.limit))
              => (args.start + k * args.step + 1) * args.line_length <= Len(input)

MinOpt(limit, n) == IF limit = None THEN n ELSE Min(limit, n)

packetwriter ==
    /\ pc = "packetwriter"
    /\ args' = IF "progress" \in DOMAIN args /\ args.progress = None
                  /\ args.output_isatty
               THEN [args EXCEPT !.progress = 0]
               ELSE args
    /\ pc' = "chunkreader"
    /\ UNCHANGED <<input, stages, chunks, postfix, yielded, lastPulls, local>>

\* if progress is None: progress = True
reader_progress == IF args.progress = None THEN 1 ELSE args.progress

\* if any((mag_hist, row_hist)): chunks.postfix = StatsList()
reader_postfix ==
    IF Truthy(reader_progress) /\ (Truthy(args.mag_hist) \/ Truthy(args.row_hist))
    THEN StatsList
    ELSE NoPostfix

\* The taps packetreader wraps around the packets, in its order.
reader_taps ==
    (IF Truthy(reader_progress) /\ Truthy(args.mag_hist) THEN <<"MagHistogram">> ELSE <<>>)
    \o (IF Truthy(reader_progress) /\ Truthy(args.row_hist) THEN <<"RowHistogram">> ELSE <<>>)
    \o (IF Truthy(reader_progress) /\ Truthy(args.err_hist) THEN <<"ErrorHistogram">> ELSE <<>>)

\* packetreader.wrapper, up to its call of the command.  chunks.postfix.append
\* on a postfix that is still None raises AttributeError.
packetreader ==
    /\ pc = "command"
    /\ IF reader_taps # <<>> /\ ~reader_postfix.set
       THEN /\ pc' = "crashed"
            /\ UNCHANGED <<stages, chunks, postfix, yielded, lastPulls>>
       ELSE /\ chunks' = chunker(IF args.wst THEN 43 ELSE 42)
            /\ Chain(<<"FileChunker">>
                     \o (IF args.wst THEN <<"wst">> ELSE <<>>)
                     \o (IF Truthy(reader_progress) THEN <<"tqdm">> ELSE <<>>)
                     \o <<"Packet", "filter">>
                     \o reader_taps)
            /\ postfix' = [reader_postfix EXCEPT !.list = reader_taps]
            /\ pc' = "packets"
    /\ UNCHANGED <<input, args, local>>

\* packetwriter.wrapper from the command's return: one to_file per output.
sinks ==
    /\ pc = "sinks"
    /\ Chain([k \in 1..args.output |-> "to_file"])
    /\ pc' = "iter"
    /\ UNCHANGED <<input, args, chunks, postfix, local>>

(***************************************************************************)
(* filter (cli.py 172-198).                                                *)
(***************************************************************************)
HexDigits == <<"0", "1", "2", "3", "4", "5", "6", "7", "8", "9",
               "a", "b", "c", "d", "e", "f">>

HexDigit(c) == (CHOOSE i \in 1..16 : HexDigits[i] = c) - 1

\* int(x, 16) of a string of hexadecimal digits, given as its characters.
RECURSIVE int16(_)
int16(x) ==
    IF x = <<>> THEN 0
    ELSE 16 * int16(SubSeq(x, 1, Len(x) - 1)) + HexDigit(x[Len(x)])

\* pages = range(0x900) unless -p is given
filter_pages ==
    IF Len(args.pages) = 0 THEN 0..(2304 - 1)
    ELSE {int16(args.pages[i]) : i \in 1..Len(args.pages)}

\* subpages = range(0x3f7f) unless -s is given
filter_subpages ==
    IF Len(args.subpages) = 0 THEN 0..(16255 - 1)
    ELSE {int16(args.subpages[i]) : i \in 1..Len(args.subpages)}

filter_paginate_flag == args.paginate

\* paginate = True when -p or -s is given
filter_paginate == args.paginate \/ Len(args.pages) # 0 \/ Len(args.subpages) # 0

filter ==
    /\ pc = "packets"
    /\ local' = [local EXCEPT !.pages = filter_pages, !.subpages = filter_subpages,
                              !.paginate = filter_paginate]
    /\ Chain(IF filter_paginate THEN <<"paginate", "yield_from_pl">> ELSE <<"yield_from">>)
    /\ pc' = "sinks"
    /\ UNCHANGED <<input, args, chunks, postfix>>

\* The magazine, row and fill of the packets of the model's input files.
PacketKinds == {<<1, 31, 10>>, <<8, 0, 60>>}

\* The file of the packets ks, each followed by a 43rd byte in the WST format.
FileOfPackets(ks, wst) ==
    Concat([i \in 1..Len(ks) |->
              EncodePacket(ks[i][1], ks[i][2], ks[i][3] + i)
                  \o (IF wst THEN <<255>> ELSE <<>>)])

MagsChoices == {0..8, {8}}

RowsChoices == {0..31, {31}}

Flag == {None, 0, 1}

Hist == {None, 1}

\* The facts about stdin and stdout are read only while progress is None.
ReaderArgs ==
    {a \in [wst : BOOLEAN, mags : MagsChoices, rows : RowsChoices,
            progress : Flag, mag_hist : Hist, row_hist : Hist, err_hist : Hist,
            start : {0}, stop : {None}, step : {1}, limit : {None},
            input_isatty : BOOLEAN, input_fifo : BOOLEAN, output_isatty : BOOLEAN,
            output : {DefaultOutputs},
            pages : {<<>>}, subpages : {<<>>}, paginate : {FALSE}] :
        a.progress # None => (~a.input_fifo /\ ~a.output_isatty)}

ReaderInit ==
    /\ pc = "packetwriter"
    /\ args \in ReaderArgs
    /\ input \in {FileOfPackets(ks, args.wst) : ks \in SeqsUpTo(PacketKinds, MaxPackets)}
    /\ Start

ReaderNext == packetwriter \/ chunkreader \/ packetreader \/ filter \/ sinks \/ Request

SpecReader == ReaderInit /\ [][ReaderNext]_vars

\* What a stage has yielded so far (nothing while the chain lacks the stage).
YieldedBy(name) == IF StageOf(name) = 0 THEN <<>> ELSE yielded[StageOf(name)]

\* The packets packetreader has handed to the command: what the stage below
\* the command's own has yielded.
CommandStages == {"yield_from", "paginate"}

HandedDown ==
    IF \E k \in 1..Len(stages) : stages[k] \in CommandStages
    THEN yielded[(CHOOSE k \in 1..Len(stages) : stages[k] \in CommandStages) - 1]
    ELSE <<>>

\* C1: with --wst every Packet built carries exactly the first 42 bytes of
\* its 43-byte chunk.
C1_WstPacket42 ==
    args.wst =>
        \A i \in 1..Len(YieldedBy("Packet")) :
            LET p == YieldedBy("Packet")[i]
                c == YieldedBy("FileChunker")[i]
            IN  /\ Len(c[2]) = 43
                /\ Len(p.array) = 42
                /\ p.array = SubSeq(c[2], 1, 42)

RECURSIVE AllChunks(_)
AllChunks(g) == IF FC_Exhausted(g) THEN <<>> ELSE <<FC_Yield(g)>> \o AllChunks(FC_Advance(g))

InMagsRows(p) == mrag(p).magazine \in args.mags /\ mrag(p).row \in args.rows

\* The packets of the input with a magazine in mags and a row in rows, as the
\* chain without any tap (--no-progress) hands them on.
PlainPackets ==
    LET cs == AllChunks(chunker(IF args.wst THEN 43 ELSE 42))
        ps == [i \in 1..Len(cs) |-> make_packet(IF args.wst THEN wst_slice(cs[i]) ELSE cs[i])]
    IN  SelectSeq(ps, InMagsRows)

\* C2: whichever of progress, mag_hist, row_hist and err_hist are set, the
\* command is handed the packets the chain without taps hands on.
C2_TapsTransparent ==
    pc \in {"done", "crashed"} => HandedDown = PlainPackets

\* C7: the packets handed to the command are, in input order and each once,
\* the packets built from the input whose magazine is in mags and whose row is
\* in rows; with the default mags and rows they are all the packets built, and
\* at the end of the stream one packet was built per whole chunk of the input.
C7_MagsRowsFilter ==
    LET built == YieldedBy("Packet")
        kept == {i \in 1..Len(built) : mrag(built[i]).magazine \in args.mags
                                        /\ mrag(built[i]).row \in args.rows}
    IN  /\ \A j \in 1..Len(HandedDown) :
              /\ mrag(HandedDown[j]).magazine \in args.mags
              /\ mrag(HandedDown[j]).row \in args.rows
        /\ pc \in {"sinks", "iter", "done"} =>
              /\ Len(HandedDown) = Cardinality(kept)
              /\ \A i \in kept :
                    HandedDown[Cardinality({h \in kept : h <= i})] = built[i]
              /\ (args.mags = 0..8 /\ args.rows = 0..31) => HandedDown = built
        /\ pc = "done" =>
              Len(built) = Len(input) \div (IF args.wst THEN 43 ELSE 42)

\* C7 witness: the stream has ended, two packets were handed on and one was not.
C7_Witness ==
    /\ pc = "done"
    /\ Len(HandedDown) = 2
    /\ Len(YieldedBy("Packet")) = 3
    /\ args.mags = {8}
    /\ mrag(YieldedBy("Packet")[2]).magazine = 1

\* The stages whose generator expression has an "if" clause, and the items
\* the clause keeps.
StageIsFilter(name) == name \in {"filter", "slice", "deconvolve", "not_none"}

StageKeeps(name, x) ==
    CASE name = "filter" -> InMagsRows(x)
      [] name \in {"slice", "deconvolve"} -> line_is_teletext(x.samples)
      [] name = "not_none" -> x # <<>>

\* What stage k has dropped so far: pulled from the stage above, not yielded.
Dropped(k) == Len(yielded[k - 1]) - Len(yielded[k])

\* C6 as stated: in every request each stage received exactly as many next()
\* calls as the stage below it, one.
C6_OnePullEach ==
    \A k \in 2..Len(stages) : lastPulls[k - 1] = lastPulls[k]

\* C6 amended: a request is one next() on the last stage; a stage that maps
\* (Packet, the taps, the sinks) passes each next() it receives on as exactly
\* one next() and yields each item it pulls; a filtering stage (the mag/row
\* filter, the is_teletext and None filters) passes a next() on once per item
\* it rejects and once more for the item it yields or the end of the stream;
\* no stage keeps an item from one request to the next.
C6_PullsPerRequest ==
    [][pc = "iter" =>
         /\ lastPulls'[Len(stages)] = 1
         /\ \A k \in 2..Len(stages) :
               IF StageIsFilter(stages[k])
               THEN /\ lastPulls'[k - 1] = lastPulls'[k] + (Dropped(k)' - Dropped(k))
                    /\ Len(yielded'[k]) =
                          Cardinality({i \in 1..Len(yielded'[k - 1]) :
                                          StageKeeps(stages[k], yielded'[k - 1][i])})
               ELSE /\ lastPulls'[k - 1] = lastPulls'[k]
                    /\ Len(yielded'[k]) = Len(yielded'[k - 1])]_vars

\* C6 witness: a request in which the filter pulled three packets to yield one.
C6_Witness ==
    /\ pc = "iter"
    /\ StageOf("filter") # 0
    /\ lastPulls[StageOf("filter")] = 1
    /\ lastPulls[StageOf("filter") - 1] = 3
    /\ lastPulls[Len(stages)] = 1
    /\ Len(yielded[Len(stages)]) = 1

(***************************************************************************)
(* filter with pagination.                                                 *)
(***************************************************************************)
\* The packets of the model's input files: <<magazine, row, page, subpage>>,
\* three headers (pages 0x100/1, 0x101/2 and 0x200/1) and row 1 of magazine 1.
FilterKinds == {<<1, 0, 0, 1>>, <<1, 0, 1, 2>>, <<2, 0, 0, 1>>, <<1, 1, 0, 0>>}

FileOfKinds(ks) ==
    Concat([i \in 1..Len(ks) |->
              IF ks[i][2] = 0
              THEN EncodeHeader(ks[i][1], ks[i][3], ks[i][4], 20 * i)
              ELSE EncodePacket(ks[i][1], ks[i][2], 20 * i)])

PagesChoices == {<<>>, << <<"1", "0", "0">> >>, << <<"1", "0", "0">>, <<"2", "0", "0">> >>}

SubpagesChoices == {<<>>, << <<"1">> >>}

\* The options the packets pass through unchanged: no --wst, every magazine
\* and row, no progress bar.
PlainReaderArgs ==
    [wst : {FALSE}, mags : {0..8}, rows : {0..31},
     progress : {0}, mag_hist : {None}, row_hist : {None}, err_hist : {None},
     start : {0}, stop : {None}, step : {1}, limit : {None},
     input_isatty : {FALSE}, input_fifo : {FALSE}, output_isatty : {FALSE},
     output : {DefaultOutputs}]

\* The record r with the fields of one of the records of S added.
Extend(R, S) == {[f \in DOMAIN r \cup DOMAIN x |-> IF f \in DOMAIN r THEN r[f] ELSE x[f]] :
                    r \in R, x \in S}

FilterInit ==
    /\ pc = "packetwriter"
    /\ args \in Extend(PlainReaderArgs,
                       [pages : PagesChoices, subpages : SubpagesChoices,
                        paginate : BOOLEAN])
    /\ input \in {FileOfKinds(ks) : ks \in SeqsUpTo(FilterKinds, MaxFilterPackets)}
    /\ Start

SpecFilter == FilterInit /\ [][ReaderNext]_vars

\* The packet lists paginate has yielded, and the packets filter has yielded.
Emitted == YieldedBy("paginate")

CommandOut ==
    IF StageOf("paginate") # 0 THEN YieldedBy("yield_from_pl") ELSE YieldedBy("yield_from")

\* C4: the subpages paginate emits for one magazine come in the order of
\* their headers; the buffer of each accepted header is emitted once, when the
\* next row 0 packet of its magazine arrives or at the end of the stream, and
\* holds the header and the rows of its magazine up to that packet; filter
\* outputs the packets of each emitted subpage contiguously, subpage by subpage.
C4_PaginateOrder ==
    StageOf("paginate") # 0 =>
        LET H == HandedDown
            E == Emitted
            Out == CommandOut
            All == Concat(E)
            Accepted(p) ==
                /\ p.mrag.row = 0
                /\ p.mrag.magazine * 256 + p.header.page \in local.pages
                /\ p.header.subpage \in local.subpages
            \* a row 0 packet of magazine m reached paginate after number a
            \* (and before number b)
            Displaced(m, a) ==
                \E n \in 1..Len(H) :
                    H[n].mrag.row = 0 /\ H[n].mrag.magazine = m /\ H[n].number > a
            Between(m, a, b) ==
                \E n \in 1..Len(H) :
                    /\ H[n].mrag.row = 0 /\ H[n].mrag.magazine = m
                    /\ H[n].number > a /\ H[n].number < b
        IN  /\ \A i, j \in 1..Len(E) :
                  (i < j /\ E[i][1].mrag.magazine = E[j][1].mrag.magazine)
                      => E[i][1].number < E[j][1].number
            /\ \A i, j \in 1..Len(E) : i # j => E[i][1].number # E[j][1].number
            /\ \A i \in 1..Len(E) :
                  /\ Accepted(E[i][1])
                  /\ \E n \in 1..Len(H) : H[n] = E[i][1]
                  /\ Displaced(E[i][1].mrag.magazine, E[i][1].number) \/ local.eos
                  /\ \A j \in 2..Len(E[i]) :
                        /\ E[i][j].mrag.magazine = E[i][1].mrag.magazine
                        /\ E[i][j].mrag.row # 0
                        /\ E[i][j].number > E[i][j - 1].number
                        /\ \E n \in 1..Len(H) : H[n] = E[i][j]
                        /\ ~Between(E[i][1].mrag.magazine, E[i][1].number, E[i][j].number)
            /\ \A n \in 1..Len(H) :
                  (/\ Accepted(H[n])
                   /\ Displaced(H[n].mrag.magazine, H[n].number) \/ pc = "done")
                      => \E i \in 1..Len(E) : E[i][1] = H[n]
            /\ Len(Out) + Len(local.pending) = Len(All)
            /\ Out = SubSeq(All, 1, Len(Out))

\* C4 witness: the stream has ended; magazine 1 had two subpages emitted in the
\* order of their headers, the first holding a row that arrived after a header
\* of magazine 2, whose subpage was emitted too.
C4_Witness ==
    /\ pc = "done"
    /\ Len(Emitted) = 3
    /\ Len(Emitted[1]) = 2
    /\ mrag(Emitted[1][1]).magazine = 1
    /\ mrag(Emitted[2][1]).magazine = 1
    /\ mrag(Emitted[3][1]).magazine = 2
    /\ Emitted[3][1].number < Emitted[1][2].number
    /\ Len(CommandOut) = 4

\* The packets that have left the last stage of the chain.
FinalOut == IF stages = <<>> THEN <<>> ELSE yielded[Len(stages)]

\* C8: with -p and/or -s given, filter paginates whether or not -P is given,
\* and every packet it outputs is the header, or a row that followed the
\* header, of a subpage whose page is in pages and whose subpage is in
\* subpages: the latest row 0 packet of its magazine was such a header.
C8_PagesFilter ==
    (Len(args.pages) # 0 \/ Len(args.subpages) # 0) =>
        LET H == HandedDown
            Out == FinalOut
            pages == IF Len(args.pages) = 0 THEN 0..(2304 - 1)
                     ELSE {int16(args.pages[x]) : x \in 1..Len(args.pages)}
            subpages == IF Len(args.subpages) = 0 THEN 0..(16255 - 1)
                        ELSE {int16(args.subpages[x]) : x \in 1..Len(args.subpages)}
            \* the row 0 packets of magazine m that reached paginate up to number a
            Headers(m, a) ==
                {n \in 1..Len(H) :
                    H[n].mrag.row = 0 /\ H[n].mrag.magazine = m /\ H[n].number <= a}
        IN  /\ pc \in {"sinks", "iter", "done"} =>
                  /\ StageOf("paginate") # 0
                  /\ StageOf("yield_from") = 0
            /\ \A i \in 1..Len(Out) :
                  LET hs == Headers(Out[i].mrag.magazine, Out[i].number)
                      last == H[CHOOSE n \in hs : \A k \in hs : k <= n]
                  IN  /\ hs # {}
                      /\ last.mrag.magazine * 256 + last.header.page \in pages
                      /\ last.header.subpage \in subpages

\* C8 witness: -p 100 without -P; a row with no header collected and the
\* header of page 0x101 were dropped, the header of page 0x100 and its row
\* were output.
C8_Witness ==
    /\ pc = "done"
    /\ ~args.paginate
    /\ args.pages = << <<"1", "0", "0">> >>
    /\ Len(HandedDown) = 4
    /\ mrag(HandedDown[1]).row = 1
    /\ Len(FinalOut) = 2
    /\ fullpage(FinalOut[1]) = 256
    /\ mrag(FinalOut[2]).row = 1

(***************************************************************************)
(* squash (cli.py 201-225).                                                *)
(***************************************************************************)
\* --min-duplicates, default=3
DefaultMinDuplicates == 3

\* pages = range(0x900) unless -p is given
squash_pages ==
    IF Len(args.pages) = 0 THEN 0..(2304 - 1)
    ELSE {int16(args.pages[i]) : i \in 1..Len(args.pages)}

\* subpages = range(0x3f7f) unless -s is given
squash_subpages ==
    IF Len(args.subpages) = 0 THEN 0..(16255 - 1)
    ELSE {int16(args.subpages[i]) : i \in 1..Len(args.subpages)}

squash_min_duplicates_default == DefaultMinDuplicates

\* subpage_squash(..., min_duplicates=min_duplicates)
squash_min_duplicates == args.min_duplicates

squash ==
    /\ pc = "packets"
    /\ local' = [local EXCEPT !.pages = squash_pages, !.subpages = squash_subpages,
                              !.min_duplicates = squash_min_duplicates]
    /\ Chain(<<"paginate", "subpage_squash", "yield_from_sp">>)
    /\ pc' = "sinks"
    /\ UNCHANGED <<input, args, chunks, postfix>>

\* The packets of the model's input files: <<magazine, row, page, subpage,
\* fill>>, two headers of page 0x100/1 that differ in their text, a header of
\* page 0x100/2, and row 1 of magazine 1.
SquashKinds == {<<1, 0, 0, 1, 0>>, <<1, 0, 0, 1, 7>>, <<1, 0, 0, 2, 0>>, <<1, 1, 0, 0, 3>>}

FileOfSquashKinds(ks) ==
    Concat([i \in 1..Len(ks) |->
              IF ks[i][2] = 0
              THEN EncodeHeader(ks[i][1], ks[i][3], ks[i][4], ks[i][5])
              ELSE EncodePacket(ks[i][1], ks[i][2], ks[i][5])])

SquashPagesChoices == {<<>>, << <<"1", "0", "0">> >>}

SquashInit ==
    /\ pc = "packetwriter"
    /\ args \in Extend(PlainReaderArgs,
                       [pages : SquashPagesChoices, subpages : {<<>>},
                        min_duplicates : 1..DefaultMinDuplicates])
    /\ input \in {FileOfSquashKinds(ks) : ks \in SeqsUpTo(SquashKinds, MaxSquashPackets)}
    /\ Start

SquashNext_ == packetwriter \/ chunkreader \/ packetreader \/ squash \/ sinks \/ Request

SpecSquash == SquashInit /\ [][SquashNext_]_vars

\* A packet list as a subpage: the payload of each row it holds.
AsSubpage(pl) == [row \in RowsOf(pl) |-> RowOf(pl, row).array]

Arrays(ps) == [i \in 1..Len(ps) |-> ps[i].array]

\* C5: when the stream subpage_squash was given is N >= 1 copies of one
\* subpage and has ended, then with min_duplicates <= N squash outputs exactly
\* one subpage, with the rows and the bytes of the input subpage, one packet
\* per row in row order, and with min_duplicates > N it outputs nothing.
C5_SquashIdentical ==
    (pc = "done" /\ StageOf("subpage_squash") # 0) =>
        LET In == YieldedBy("paginate")
            Out == YieldedBy("subpage_squash")
            N == Len(In)
        IN  (N >= 1 /\ \A i \in 1..N : AsSubpage(In[i]) = AsSubpage(In[1])) =>
                IF args.min_duplicates <= N
                THEN /\ Len(Out) = 1
                     /\ AsSubpage(Out[1].packets) = AsSubpage(In[1])
                     /\ Len(Out[1].packets) = Cardinality(RowsOf(In[1]))
                     /\ \A j \in 2..Len(Out[1].packets) :
                           Out[1].packets[j - 1].mrag.row < Out[1].packets[j].mrag.row
                     /\ Arrays(YieldedBy("yield_from_sp")) = Arrays(Out[1].packets)
                     /\ Arrays(FinalOut) = Arrays(Out[1].packets)
                ELSE /\ Out = <<>>
                     /\ FinalOut = <<>>

\* C5 witness: two copies of a subpage of a header and a row, squashed with
\* min_duplicates 2 into the two packets of one subpage.
C5_Witness ==
    /\ pc = "done"
    /\ StageOf("subpage_squash") # 0
    /\ args.min_duplicates = 2
    /\ Len(YieldedBy("paginate")) = 2
    /\ Len(YieldedBy("paginate")[1]) = 2
    /\ AsSubpage(YieldedBy("paginate")[1]) = AsSubpage(YieldedBy("paginate")[2])
    /\ Len(YieldedBy("subpage_squash")) = 1
    /\ Len(FinalOut) = 2

(***************************************************************************)
(* celp_print (celp.py 11-51): one step per packet of "for p in packets".  *)
(***************************************************************************)
celp_selected_any_row(p) == p.mrag.magazine = 4

\* if p.mrag.magazine == 4 and p.mrag.row in rows
celp_selected(p) == p.mrag.magazine = 4 /\ p.mrag.row \in args.rows

\* dcn = p.mrag.magazine + ((p.mrag.row & 1) << 3)
celp_dcn(p) == p.mrag.magazine + ((p.mrag.row % 2) * 8)

\* control = hamming8_decode(p._array[2])
celp_control(p) == hamming8_decode(p.array[3])

\* service = hamming8_decode(p._array[3])
celp_service(p) == hamming8_decode(p.array[4])

\* frame0 = p._array[4:23]
celp_frame0(p) == Slice(p.array, 4, 23)

\* frame1 = p._array[23:42]
celp_frame1(p) == Slice(p.array, 23, 42)

\* The locals after the loop body for packet p: a line printed when o is
\* None, the two frames written to o otherwise.
celp_body(loc, p) ==
    IF ~celp_selected(p) THEN loc
    ELSE IF args.o = None
    THEN [loc EXCEPT !.dcn = Append(@, celp_dcn(p)),
                     !.stdout = Append(@, [dcn |-> celp_dcn(p),
                                           magazine |-> p.mrag.magazine,
                                           row |-> p.mrag.row,
                                           service |-> celp_service(p),
                                           control |-> celp_control(p),
                                           frame0 |-> celp_frame0(p),
                                           frame1 |-> celp_frame1(p)])]
    ELSE [loc EXCEPT !.dcn = Append(@, celp_dcn(p)),
                     !.o = (@ \o celp_frame0(p)) \o celp_frame1(p)]

celp_print ==
    /\ pc = "celp_print"
    /\ \E r \in {Pull(Len(stages), [chunks |-> chunks, yielded |-> yielded,
                                       pulls |-> [k \in 1..Len(stages) |-> 0],
                                       local |-> local])} :
           /\ chunks' = r.st.chunks
           /\ yielded' = r.st.yielded
           /\ lastPulls' = r.st.pulls
           /\ local' = IF r.stop THEN r.st.local ELSE celp_body(r.st.local, r.item)
           /\ pc' = IF r.stop THEN "done" ELSE "celp_print"
    /\ UNCHANGED <<input, args, stages, postfix>>

\* The magazine, row and fill of the packets celp_print is given.
CelpKinds == {<<4, 1, 0>>, <<4, 2, 50>>, <<1, 1, 100>>}

CelpRowsChoices == {0..31, {1}, {}}

\* celp_print is called with the packets of a t42 file, rows and o.
CelpInit ==
    /\ pc = "celp_print"
    /\ args \in [rows : CelpRowsChoices, o : {None, 1}]
    /\ input \in {FileOfPackets(ks, FALSE) : ks \in SeqsUpTo(CelpKinds, MaxCelpPackets)}
    /\ stages = <<"FileChunker", "Packet">>
    /\ chunks = FileChunker(input, 42, 0, None, 1, None)
    /\ yielded = << <<>>, <<>> >>
    /\ lastPulls = <<0, 0>>
    /\ postfix = NoPostfix
    /\ local = NoLocals

CelpNext == celp_print

SpecCelp == CelpInit /\ [][CelpNext]_vars

IsCelp(p) == decode_mrag(p.array).magazine = 4 /\ decode_mrag(p.array).row \in args.rows

\* C9: with an output file, what celp_print has written is, for the packets
\* taken so far with magazine 4 and a row in rows, in input order, the 19
\* bytes at offsets 4..22 followed by the 19 bytes at offsets 23..41 of each,
\* 38 bytes per packet, and nothing for any other packet; nothing is printed;
\* every dcn computed is 4 or 12.
C9_CelpFrames ==
    LET taken == YieldedBy("Packet")
        sel == SelectSeq(taken, IsCelp)
    IN  /\ args.o # None =>
              /\ local.o = Concat([i \in 1..Len(sel) |->
                                     SubSeq(sel[i].array, 5, 23)
                                         \o SubSeq(sel[i].array, 24, 42)])
              /\ Len(local.o) = 38 * Len(sel)
              /\ local.stdout = <<>>
        /\ args.o = None =>
              /\ local.o = <<>>
              /\ Len(local.stdout) = Len(sel)
        /\ Len(local.dcn) = Len(sel)
        /\ \A i \in 1..Len(local.dcn) : local.dcn[i] \in {4, 12}
        /\ pc = "done" => Len(taken) = Len(input) \div 42

\* C9 witness: of three packets the two of magazine 4 are written, 76 bytes,
\* one on data channel 12 and one on data channel 4; the other is skipped.
C9_Witness ==
    /\ pc = "done"
    /\ args.o # None
    /\ Len(YieldedBy("Packet")) = 3
    /\ YieldedBy("Packet")[2].mrag.magazine = 1
    /\ Len(local.o) = 76
    /\ local.dcn = <<12, 4>>

(***************************************************************************)
(* deconvolve (cli.py 353-398) and slice (cli.py 401-443).                 *)
(***************************************************************************)
\* if any((mag_hist, row_hist, rejects)): chunks.postfix = StatsList()
lines_postfix ==
    IF Truthy(args.progress)
       /\ (Truthy(args.mag_hist) \/ Truthy(args.row_hist) \/ Truthy(args.rejects))
    THEN StatsList
    ELSE NoPostfix

\* if progress and rejects: lines = Rejects(lines)
lines_rejects ==
    IF Truthy(args.progress) /\ Truthy(args.rejects) THEN <<"Rejects">> ELSE <<>>

\* The taps wrapped around the packets, in order.
lines_taps ==
    (IF Truthy(args.progress) /\ Truthy(args.mag_hist) THEN <<"MagHistogram">> ELSE <<>>)
    \o (IF Truthy(args.progress) /\ Truthy(args.row_hist) THEN <<"RowHistogram">> ELSE <<>>)
    \o (IF Truthy(args.progress) /\ Truthy(args.err_hist) THEN <<"ErrorHistogram">> ELSE <<>>)

\* The body of slice and of deconvolve, which differ in the bit recovery
\* method.  chunks.postfix.append on a postfix that is still None raises
\* AttributeError.
decoder(method) ==
    /\ pc = "command"
    /\ IF lines_rejects \o lines_taps # <<>> /\ ~lines_postfix.set
       THEN /\ pc' = "crashed"
            /\ UNCHANGED <<stages, chunks, postfix, yielded, lastPulls>>
       ELSE /\ chunks' = chunker(args.line_length)
            /\ Chain(<<"FileChunker">>
                     \o (IF Truthy(args.progress) THEN <<"tqdm">> ELSE <<>>)
                     \o <<"Line">>
                     \o lines_rejects
                     \o <<method, "not_none">>
                     \o lines_taps)
            /\ postfix' = [lines_postfix EXCEPT !.list = lines_rejects \o lines_taps]
            /\ pc' = "sinks"
    /\ UNCHANGED <<input, args, local>>

deconvolve == decoder("deconvolve")

slice == decoder("slice")

\* The first three samples of the lines of the model's input files: a line of
\* uniform 0x80, a line whose MRAG is uncorrectable, and a line that holds
\* row 5 of magazine 1.
LineKinds == {<<128, 128, 128>>, <<1, 1, 5>>, <<0, 1, 5>>}

FileOfLines(ks, n) ==
    Concat([i \in 1..Len(ks) |-> [j \in 1..n |-> IF j <= 3 THEN ks[i][j] ELSE 128]])

LinesInit ==
    /\ pc = "packetwriter"
    /\ args \in [mags : MagsChoices, rows : {0..31},
                 progress : {0, 1}, mag_hist : {0, 1}, row_hist : {None},
                 err_hist : {None, 1}, rejects : {0, 1},
                 start : {0}, stop : {None}, step : {1}, limit : {None},
                 line_length : {MaxLineLength},
                 input_isatty : {FALSE}, input_fifo : {FALSE}, output_isatty : {FALSE},
                 output : {DefaultOutputs}]
    /\ input \in {FileOfLines(ks, MaxLineLength) : ks \in SeqsUpTo(LineKinds, MaxLines)}
    /\ Start

LinesNext == packetwriter \/ chunkreader \/ deconvolve \/ slice \/ sinks \/ Request

SpecLines == LinesInit /\ [][LinesNext]_vars

\* What the bit recovery stage has yielded: one result per call.
Recovered ==
    IF StageOf("slice") # 0 THEN YieldedBy("slice") ELSE YieldedBy("deconvolve")

IsTeletext(l) == line_is_teletext(l.samples)

\* C10: bit recovery is called once on each line pulled whose is_teletext is
\* true, in line order, and on no other line; the packets are the results
\* that are not None, in that order, so each line yields at most one packet,
\* the packets come in line number order, and a line that is not teletext or
\* whose recovery returns None yields none; the Rejects tap, when there is
\* one, sees every line; the taps and sinks hand the packets on unchanged.
C10_LinesToPackets ==
    LET Lines == YieldedBy("Line")
        Rec == Recovered
        Out == YieldedBy("not_none")
        Tele == SelectSeq(Lines, IsTeletext)
        Got == {i \in 1..Len(Rec) : Rec[i] # <<>>}
    IN  /\ Len(Rec) = Len(Tele)
        /\ \A i \in 1..Len(Rec) :
              /\ Rec[i] = line_recover(Tele[i], args.mags, args.rows)
              /\ Rec[i] # <<>> => Rec[i][1].number = Tele[i].number
        /\ Len(Out) = Cardinality(Got)
        /\ \A i \in Got : Out[Cardinality({g \in Got : g <= i})] = Rec[i][1]
        /\ \A j \in 2..Len(Out) : Out[j - 1].number < Out[j].number
        /\ \A i \in 1..Len(Lines) :
              Cardinality({j \in 1..Len(Out) : Out[j].number = Lines[i].number})
                  = IF IsTeletext(Lines[i])
                       /\ line_recover(Lines[i], args.mags, args.rows) # <<>>
                    THEN 1 ELSE 0
        /\ StageOf("Rejects") # 0 => YieldedBy("Rejects") = Lines
        /\ FinalOut = Out
        /\ pc = "done" => Len(Lines) = Len(input) \div args.line_length

\* C10 witness: of three lines seen by the Rejects tap the first is not
\* teletext, the recovery of the second returned None and the third gave the
\* one packet.
C10_Witness ==
    /\ pc = "done"
    /\ StageOf("Rejects") # 0
    /\ Len(YieldedBy("Rejects")) = 3
    /\ ~IsTeletext(YieldedBy("Line")[1])
    /\ Len(Recovered) = 2
    /\ Recovered[1] = <<>>
    /\ Len(FinalOut) = 1
    /\ FinalOut[1].number = 2

(***************************************************************************)
(* The postfix of the progress reporter.                                   *)
(***************************************************************************)
\* C11: no set-up reaches chunks.postfix.append on a postfix that was not
\* initialised to a StatsList: the wrapper never raises on the append, and
\* a postfix that holds taps is a StatsList.
C11_PostfixInitialised ==
    /\ pc # "crashed"
    /\ postfix.list # <<>> => postfix.set

(***************************************************************************)
(* filter and squash without -p and -s: the default pages and subpages.    *)
(***************************************************************************)
\* The packets of the model's input files: <<magazine, row, page, subpage,
\* fill>>, the header of page 0x100 with subpage 0x3F7F, the header of page
\* 0x8FF with subpage 0, and row 1 of magazine 1.
DefaultsKinds == {<<1, 0, 0, 16255, 0>>, <<8, 0, 255, 0, 7>>, <<1, 1, 0, 0, 3>>}

DefaultsInit ==
    /\ pc = "packetwriter"
    /\ args \in Extend(PlainReaderArgs,
                       [pages : {<<>>}, subpages : {<<>>}, paginate : BOOLEAN,
                        min_duplicates : {1}])
    /\ input \in {FileOfSquashKinds(ks) : ks \in SeqsUpTo(DefaultsKinds, MaxDefaultsPackets)}
    /\ Start

DefaultsNext ==
    packetwriter \/ chunkreader \/ packetreader \/ filter \/ squash \/ sinks \/ Request

SpecDefaults == DefaultsInit /\ [][DefaultsNext]_vars

\* The row 0 packets handed to the command.
HeadersIn == SelectSeq(HandedDown, LAMBDA p : p.mrag.row = 0)

\* C12: with neither -p nor -s, the subpages of filter and squash hold
\* 0x3F7F and the subpage of every header handed to the command, the pages
\* hold the magazine and page of every such header, and filter -P outputs
\* every header it is handed once the stream has ended.
C12_DefaultsKeepAll ==
    pc \in {"sinks", "iter", "done"} =>
        /\ 16255 \in local.subpages
        /\ \A i \in 1..Len(HeadersIn) :
              /\ HeadersIn[i].header.subpage \in local.subpages
              /\ HeadersIn[i].mrag.magazine * 256 + HeadersIn[i].header.page \in local.pages
        /\ (pc = "done" /\ StageOf("yield_from_pl") # 0) =>
              \A i \in 1..Len(HeadersIn) :
                  \E j \in 1..Len(FinalOut) : FinalOut[j] = HeadersIn[i]

====
